---------------------------- MODULE Spec2Model ----------------------------
(***************************************************************************)
(* Model of src/素材/audio_response/svg/audio_spectrum_svg.py:             *)
(* the AudioSpectrumSVG generator object (load_audio, calculate_spectrum,  *)
(* generate_svg, process, process_batch).                                  *)
(*                                                                         *)
(* Numbers.  Python floats are modelled as exact rationals                 *)
(* [nan, n, d] (d > 0, lowest terms) together with one NaN value; the      *)
(* float rounding error of a product such as duration * bars_per_second    *)
(* is not modelled.  The external librosa calls are modelled by the        *)
(* properties the code relies on: librosa.load returns a mono buffer and   *)
(* a sample rate or raises; librosa.stft (center=True) returns             *)
(* 1 + len // hop_length frames of 1 + n_fft // 2 non-negative             *)
(* magnitudes, all zero when every sample in the frame's window is zero,   *)
(* and raises when hop_length is not a positive integer.                   *)
(***************************************************************************)
EXTENDS Integers, Sequences, FiniteSets, TLC

VARIABLES
    config,         \* self.config, read once by __init__
    audio_data,     \* self.audio_data (None or the decoded samples)
    sample_rate,    \* self.sample_rate (None or Hz)
    pc,             \* position of the running call
    mode,           \* which public method the caller invoked
    dir,            \* listing of input_folder seen by process_batch
    audio_files,    \* process_batch: the enumerated paths
    idx,            \* process_batch: number of files already handled
    success_count,  \* process_batch local
    failed_files,   \* process_batch local: <<name, message>> pairs
    cur,            \* process: the audio_file argument, and what load_audio found in it
    spectrum,       \* list returned by calculate_spectrum
    error,          \* exception propagating out of the running call ("" = none)
    svg,            \* generate_svg: markup built so far
    x_offset,       \* generate_svg local
    bar_i,          \* generate_svg local: enumerate index
    written,        \* output files written during the current top-level call
    svg_out,        \* content of the file written last
    everLoaded,     \* history: some load_audio call on this instance succeeded
    steps           \* history: pipeline stages entered by the current process call

vars == <<config, audio_data, sample_rate, pc, mode, dir, audio_files, idx,
          success_count, failed_files, cur, spectrum, error, svg,
          x_offset, bar_i, written, svg_out, everLoaded, steps>>

-----------------------------------------------------------------------------
(* Bounds of the model *)

MaxSamples == 3      \* longest decoded buffer
MaxFiles == 2        \* longest directory listing
MaxBars == 3         \* longest spectrum handed directly to generate_svg

Amplitudes == {0, 1}
SampleRates == {2, 3}

RECURSIVE SeqsUpTo(_, _)
SeqsUpTo(n, S) ==
    IF n = 0 THEN {<<>>}
    ELSE LET shorter == SeqsUpTo(n - 1, S)
         IN  shorter \cup {Append(s, x) : s \in {t \in shorter : Len(t) = n - 1}, x \in S}

-----------------------------------------------------------------------------
(* Float arithmetic: exact rationals plus NaN *)

RECURSIVE GCD(_, _)
GCD(a, b) == IF b = 0 THEN a ELSE GCD(b, a % b)

Abs(x) == IF x < 0 THEN -x ELSE x

NaN == [nan |-> TRUE, n |-> 0, d |-> 1]

Rat(n, d) ==
    LET g == GCD(Abs(n), Abs(d))
        s == IF d < 0 THEN -1 ELSE 1
    IN  [nan |-> FALSE, n |-> s * (n \div g), d |-> s * (d \div g)]

R(k) == [nan |-> FALSE, n |-> k, d |-> 1]

RAdd(a, b) == IF a.nan \/ b.nan THEN NaN ELSE Rat(a.n * b.d + b.n * a.d, a.d * b.d)
RSub(a, b) == IF a.nan \/ b.nan THEN NaN ELSE Rat(a.n * b.d - b.n * a.d, a.d * b.d)
RMul(a, b) == IF a.nan \/ b.nan THEN NaN ELSE Rat(a.n * b.n, a.d * b.d)
\* numpy float division: 0/0 (and anything by NaN) is NaN, no exception
RDiv(a, b) == IF a.nan \/ b.nan \/ b.n = 0 THEN NaN ELSE Rat(a.n * b.d, a.d * b.n)
\* comparisons with NaN are False
RLt(a, b) == ~a.nan /\ ~b.nan /\ a.n * b.d < b.n * a.d
RLe(a, b) == ~a.nan /\ ~b.nan /\ a.n * b.d <= b.n * a.d
RGt(a, b) == RLt(b, a)

\* int(x): truncation toward zero
IntTrunc(a) == IF a.n >= 0 THEN a.n \div a.d ELSE -((-a.n) \div a.d)

\* round(x): to nearest, ties to even
RoundNearest(a) ==
    LET fl == a.n \div a.d
        twice == 2 * (a.n - fl * a.d)
    IN  IF twice < a.d THEN fl
        ELSE IF twice > a.d THEN fl + 1
        ELSE IF fl % 2 = 0 THEN fl ELSE fl + 1

\* Python's max(a, b): b only when b > a
PyMax(a, b) == IF RGt(b, a) THEN b ELSE a

-----------------------------------------------------------------------------
(* Option values: None or a value *)

None == [none |-> TRUE, val |-> <<>>]
Some(v) == [none |-> FALSE, val |-> v]

-----------------------------------------------------------------------------
(* calculate_spectrum, lines 78-141 *)

NFftCap == 2048

Min(a, b) == IF a < b THEN a ELSE b

RECURSIVE SumAbs(_, _, _)
SumAbs(a, lo, hi) == IF lo > hi THEN 0 ELSE Abs(a[lo]) + SumAbs(a, lo + 1, hi)

\* line 96: duration = len(self.audio_data) / self.sample_rate
Duration(a, sr) == Rat(Len(a), sr)

\* lines 99-100 with round() in place of int()
ResolveBarCountRounded(cfg, a, sr) ==
    IF cfg.num_bars = 0
    THEN RoundNearest(RMul(Duration(a, sr), cfg.bars_per_second))
    ELSE cfg.num_bars

\* lines 99-100: num_bars == 0 means "derive from the duration", with int()
ResolveBarCount(cfg, a, sr) ==
    IF cfg.num_bars = 0
    THEN IntTrunc(RMul(Duration(a, sr), cfg.bars_per_second))
    ELSE cfg.num_bars

\* line 106: hop_length = int(self.sample_rate * time_window)
HopLength(cfg, sr) == IntTrunc(RMul(R(sr), cfg.time_window))

\* line 107: n_fft = min(2048, hop_length * 2)
NFft(hop) == Min(NFftCap, hop * 2)

\* line 111, librosa.stft with center=True: frames 0 .. len // hop_length
NumFrames(a, hop) == 1 + Len(a) \div hop

\* line 112, |stft|: frame t is centred on sample t * hop_length and spans n_fft
\* samples of the zero-padded buffer.  Every bin of a frame carries the summed
\* absolute amplitude of its window: non-negative, and zero on silence.
Magnitude(a, hop, nfft, t) ==
    LET first == t * hop - nfft \div 2 + 1
        last == first + nfft - 1
        lo == IF first < 1 THEN 1 ELSE first
        hi == IF last > Len(a) THEN Len(a) ELSE last
    IN  SumAbs(a, lo, hi)

\* line 116, librosa.fft_frequencies: bin b is at b * sr / n_fft
FftFrequency(sr, nfft, b) == Rat(b * sr, nfft)

\* line 119: freq_mask = (freqs >= freq_min) & (freqs <= freq_max)
FreqMask(cfg, sr, nfft) ==
    {b \in 0..(nfft \div 2) :
        /\ RLe(R(cfg.freq_min), FftFrequency(sr, nfft, b))
        /\ RLe(FftFrequency(sr, nfft, b), R(cfg.freq_max))}

\* lines 120-124: np.mean over the selected bins; the mean of no bins is NaN
FrameEnergy(cfg, a, sr, hop, nfft, t) ==
    LET mask == FreqMask(cfg, sr, nfft)
    IN  IF mask = {} THEN NaN
        ELSE Rat(Cardinality(mask) * Magnitude(a, hop, nfft, t), Cardinality(mask))

RawEnergy(cfg, a, sr) ==
    LET hop == HopLength(cfg, sr)
        nfft == NFft(hop)
    IN  [k \in 1..NumFrames(a, hop) |-> FrameEnergy(cfg, a, sr, hop, nfft, k - 1)]

\* lines 130-131: np.linspace(0, 1, n)
Linspace(n) == [k \in 1..n |-> IF n = 1 THEN R(0) ELSE Rat(k - 1, n - 1)]

\* line 132: np.interp(x, xp, fp) at one point x, xp increasing
InterpAt(x, xp, fp) ==
    IF RLe(x, xp[1]) THEN fp[1]
    ELSE IF RLe(xp[Len(xp)], x) THEN fp[Len(xp)]
    ELSE LET j == CHOOSE k \in 1..(Len(xp) - 1) : RLe(xp[k], x) /\ RLt(x, xp[k + 1])
             slope == RDiv(RSub(fp[j + 1], fp[j]), RSub(xp[j + 1], xp[j]))
         IN  RAdd(RMul(slope, RSub(x, xp[j])), fp[j])

\* lines 128-132 with the resampling left out: one entry per STFT frame
ResampleSkipped(energy, num_bars) == energy

\* lines 128-132: resample to num_bars entries unless the lengths already agree
Resample(energy, num_bars) ==
    IF Len(energy) # num_bars
    THEN LET x_old == Linspace(Len(energy))
             x_new == Linspace(num_bars)
         IN  [k \in 1..num_bars |-> InterpAt(x_new[k], x_old, energy)]
    ELSE energy

\* np.max: NaN if any entry is NaN
NpMax(e) ==
    IF \E k \in 1..Len(e) : e[k].nan THEN NaN
    ELSE e[CHOOSE k \in 1..Len(e) : \A j \in 1..Len(e) : RLe(e[j], e[k])]

\* lines 135-136 with the division left unguarded
NormalizeUnguarded(e) == [k \in 1..Len(e) |-> RDiv(e[k], NpMax(e))]

\* lines 135-136: if np.max(energy) > 0: energy = energy / np.max(energy)
Normalize(e) ==
    IF RGt(NpMax(e), R(0))
    THEN [k \in 1..Len(e) |-> RDiv(e[k], NpMax(e))]
    ELSE e

\* ln(1 + k) / ln(11) in thousandths, k = 0 .. 10
Log1pTable == <<0, 289, 458, 578, 671, 747, 812, 867, 916, 960, 1000>>

\* line 139: np.log1p(energy * 10) / np.log1p(10), read off the table with
\* linear interpolation between its points (and its last slope beyond 1, its
\* first below 0)
Log1pCurve(e) ==
    IF e.nan THEN NaN
    ELSE LET ten == RMul(e, R(10))
             fl == ten.n \div ten.d
             k == IF fl < 0 THEN 0 ELSE IF fl > 9 THEN 9 ELSE fl
             step == Log1pTable[k + 2] - Log1pTable[k + 1]
         IN  RDiv(RAdd(R(Log1pTable[k + 1]), RMul(RSub(ten, R(k)), R(step))), R(1000))

Compress(e) == [k \in 1..Len(e) |-> Log1pCurve(e[k])]

Raises(msg) == [err |-> msg, energy |-> <<>>]
Returns(e) == [err |-> "", energy |-> e]

\* lines 127-141: resample, normalise, compress, return the list
FinishSpectrum(raw, num_bars) ==
    IF Len(raw) # num_bars /\ num_bars < 0
    THEN Raises("ValueError: number of samples must be non-negative")
    ELSE LET energy == Resample(raw, num_bars)
         IN  IF Len(energy) = 0
             THEN Raises("ValueError: zero-size array to reduction operation maximum")
             ELSE Returns(Compress(Normalize(energy)))

\* The whole method.  ad and sr are the instance fields (options); emptyRaises
\* is the librosa version's answer to a zero-sample buffer: some versions
\* reject it, others return one all-zero frame.
CalculateSpectrum(cfg, ad, sr, emptyRaises) ==
    IF ad.none THEN Raises("ValueError: load the audio first")
    ELSE LET a == ad.val
             rate == sr.val
             num_bars == ResolveBarCount(cfg, a, rate)
             hop == HopLength(cfg, rate)
         IN  IF hop <= 0 THEN Raises("ParameterError: hop_length must be a positive integer")
             ELSE IF Len(a) = 0 /\ emptyRaises THEN Raises("ParameterError: empty signal")
             ELSE FinishSpectrum(RawEnergy(cfg, a, rate), num_bars)

-----------------------------------------------------------------------------
(* generate_svg, lines 143-239 *)

\* line 172
ComputedWidth(cfg, n) == n * (cfg.bar_width + cfg.bar_spacing) - cfg.bar_spacing

\* lines 176-179 with the else branch lost: the computed width always
ResolveWidthComputedOnly(cfg, n) == ComputedWidth(cfg, n)

\* lines 176-179: the configured width wins when it is non-zero and not
\* smaller than the computed width
ResolveWidth(cfg, n) ==
    IF cfg.width = 0 \/ cfg.width < ComputedWidth(cfg, n)
    THEN ComputedWidth(cfg, n)
    ELSE cfg.width

\* line 182
MaxBarHeight(cfg) == Rat(cfg.height * cfg.max_bar_height_percent, 100)

\* line 199
BarHeight(cfg, e) == PyMax(R(cfg.min_bar_height), RMul(e, MaxBarHeight(cfg)))

\* lines 202-210: anything but top and bottom is centred
BarY(cfg, h) ==
    IF cfg.vertical_align = "top" THEN R(0)
    ELSE IF cfg.vertical_align = "bottom" THEN RSub(R(cfg.height), h)
    ELSE RDiv(RSub(R(cfg.height), h), R(2))

\* the :.2f format: the value in hundredths
Fmt2(r) == RoundNearest(RMul(r, R(100)))

\* lines 213-222: one <rect id="bar_i" .../> element
BarRect(cfg, i, e, x) ==
    [id |-> i,
     width |-> cfg.bar_width,
     height |-> Fmt2(BarHeight(cfg, e)),
     x |-> x,
     y |-> Fmt2(BarY(cfg, BarHeight(cfg, e))),
     rounded |-> cfg.border_radius > 0,
     rx |-> IF cfg.border_radius > 0 THEN cfg.border_radius ELSE 0]

\* lines 186-192: the <svg> element and the optional background rectangle
SvgHeader(cfg, n) ==
    [width |-> ResolveWidth(cfg, n),
     height |-> cfg.height,
     viewBox |-> <<0, 0, ResolveWidth(cfg, n), cfg.height>>,
     background |-> IF cfg.background_color # ""
                    THEN Some(<<ResolveWidth(cfg, n), cfg.height>>)
                    ELSE None,
     rects |-> <<>>]

NoSvg == [width |-> 0, height |-> 0, viewBox |-> <<0, 0, 0, 0>>,
          background |-> None, rects |-> <<>>]

-----------------------------------------------------------------------------
(* File names: an extension is a sequence of characters *)

LowerCase == <<"a", "c", "f", "g", "l", "m", "o", "p", "t", "v", "w", "x">>
UpperCase == <<"A", "C", "F", "G", "L", "M", "O", "P", "T", "V", "W", "X">>

LowerChar(c) ==
    IF \E k \in 1..Len(UpperCase) : UpperCase[k] = c
    THEN LowerCase[CHOOSE k \in 1..Len(UpperCase) : UpperCase[k] = c]
    ELSE c

UpperChar(c) ==
    IF \E k \in 1..Len(LowerCase) : LowerCase[k] = c
    THEN UpperCase[CHOOSE k \in 1..Len(LowerCase) : LowerCase[k] = c]
    ELSE c

\* str.lower(), str.upper()
Lower(s) == [k \in 1..Len(s) |-> LowerChar(s[k])]
Upper(s) == [k \in 1..Len(s) |-> UpperChar(s[k])]

\* lines 63 and 292
supported_formats ==
    << <<".", "w", "a", "v">>, <<".", "m", "p", "3">>, <<".", "o", "g", "g">>,
       <<".", "f", "l", "a", "c">>, <<".", "m", "4", "a">> >>

InSupported(ext) == \E k \in 1..Len(supported_formats) : supported_formats[k] = ext

\* Path(input_folder).glob('*' + ext) on a case-sensitive file system, in
\* directory order
Glob(listing, ext) == SelectSeq(listing, LAMBDA f : f.ext = ext)

\* lines 295-298: for each supported extension, the lower-case glob, then the
\* upper-case glob
RECURSIVE Enumerate(_, _)
Enumerate(listing, k) ==
    IF k > Len(supported_formats) THEN <<>>
    ELSE Glob(listing, supported_formats[k])
         \o Glob(listing, Upper(supported_formats[k]))
         \o Enumerate(listing, k + 1)

-----------------------------------------------------------------------------
(* Inputs *)

\* the [spectrum], [svg] and [alignment] tables of config.toml
Config(tw, nb, bps, fmin, fmax, w, bw, bs, br, va, bg) ==
    [time_window |-> tw, num_bars |-> nb, bars_per_second |-> bps,
     freq_min |-> fmin, freq_max |-> fmax,
     width |-> w, height |-> 10, bar_width |-> bw, bar_spacing |-> bs,
     border_radius |-> br, min_bar_height |-> 1, max_bar_height_percent |-> 80,
     background_color |-> bg, vertical_align |-> va]

\* what librosa.load can return: a mono buffer and its sample rate
AudioBuffers ==
    {[samples |-> a, sr |-> r] : a \in SeqsUpTo(MaxSamples, Amplitudes), r \in SampleRates}

\* the buffers met in the pipeline runs: empty, silent, and two sounding ones
PipelineBuffers ==
    {[samples |-> a, sr |-> r] :
        a \in {<<>>, <<0, 0>>, <<1, 0>>, <<0, 1, 1>>}, r \in SampleRates}

\* what a file can hold: something librosa decodes, or something it rejects
FileContents == {None} \cup {Some(b) : b \in PipelineBuffers}

\* extensions of the files met in a folder
DirExts ==
    { <<".", "w", "a", "v">>, <<".", "M", "P", "3">>, <<".", "W", "a", "v">>,
      <<".", "t", "x", "t">> }

\* folder listings: file k of the listing has stem k
Listings ==
    {[k \in 1..Len(e) |-> [name |-> k, ext |-> e[k]]] : e \in SeqsUpTo(MaxFiles, DirExts)}

\* configurations of the pipeline runs
PipelineConfigs ==
    {Config(tw, nb, R(1), f[1], f[2], 0, 2, 1, 0, "center", "") :
        tw \in {R(0), R(1)}, nb \in {0, 2}, f \in {<<0, 1>>, <<1, 0>>}}

\* configurations of the analysis runs
SpectrumConfigs ==
    {Config(tw, nb, bps, fmin, fmax, 0, 2, 1, 0, "center", "") :
        tw \in {Rat(-1, 2), R(0), Rat(1, 2), R(1)},
        nb \in {-1, 0, 1, 2, 4},
        bps \in {R(-1), R(0), Rat(1, 2), R(1), R(2)},
        fmin \in {0, 1, 2}, fmax \in {0, 1, 2}}

\* configurations of the rendering runs
SvgConfigs ==
    {Config(R(1), 2, R(1), 0, 1, w, bw, bs, br, va, bg) :
        w \in {0, 2, 5, 9}, bw \in {1, 2}, bs \in {0, 1}, br \in {0, 2},
        va \in {"top", "center", "bottom", "middle"}, bg \in {"", "#000000"}}

\* spectra handed to generate_svg
Energies == {R(0), Rat(1, 2), R(1), NaN}
Spectra == SeqsUpTo(MaxBars, Energies)

NoFile == [exists |-> FALSE, name |-> 0, ext |-> <<>>, content |-> None]

-----------------------------------------------------------------------------
(* Initial states *)

\* locals of a call that is not running
LocalsClear ==
    /\ dir = <<>>
    /\ audio_files = <<>>
    /\ idx = 0
    /\ success_count = 0
    /\ failed_files = <<>>
    /\ cur = NoFile
    /\ spectrum = <<>>
    /\ error = ""
    /\ svg = NoSvg
    /\ x_offset = 0
    /\ bar_i = 0
    /\ written = {}
    /\ svg_out = None
    /\ steps = <<>>

\* lines 21-30: a fresh instance, no call running
Init ==
    /\ config \in PipelineConfigs
    /\ audio_data = None
    /\ sample_rate = None
    /\ everLoaded = FALSE
    /\ pc = "idle"
    /\ mode = "none"
    /\ LocalsClear

\* calculate_spectrum about to run on a loaded (or never loaded) instance
InitSpectrum ==
    /\ config \in SpectrumConfigs
    /\ \E c \in {None} \cup {Some(b) : b \in AudioBuffers} :
          /\ audio_data = (IF c.none THEN None ELSE Some(c.val.samples))
          /\ sample_rate = (IF c.none THEN None ELSE Some(c.val.sr))
          /\ everLoaded = ~c.none
    /\ pc = "calc"
    /\ mode = "direct"
    /\ LocalsClear

\* generate_svg about to run on a given spectrum
InitSvg ==
    /\ config \in SvgConfigs
    /\ audio_data = None
    /\ sample_rate = None
    /\ everLoaded = FALSE
    /\ pc = "gen_begin"
    /\ mode = "direct"
    /\ dir = <<>>
    /\ audio_files = <<>>
    /\ idx = 0
    /\ success_count = 0
    /\ failed_files = <<>>
    /\ cur = NoFile
    /\ spectrum \in Spectra
    /\ error = ""
    /\ svg = NoSvg
    /\ x_offset = 0
    /\ bar_i = 0
    /\ written = {}
    /\ svg_out = None
    /\ steps = <<>>

-----------------------------------------------------------------------------
(* Operations *)

batchVars == <<dir, audio_files, idx, success_count, failed_files>>
genVars == <<svg, x_offset, bar_i>>
outVars == <<written, svg_out>>

\* where an exception raised inside the running call lands: in the except
\* clause of process_batch (line 326), or at the caller
RaisePc == IF mode = "batch" THEN "except" ELSE "done"

\* paths handed to process() directly: a file with some extension, or no file
SingleFiles ==
    {[exists |-> TRUE, name |-> 1, ext |-> e, content |-> None] : e \in DirExts}
    \cup {[exists |-> FALSE, name |-> 1, ext |-> <<".", "w", "a", "v">>, content |-> None]}

\* line 372: generator.process(audio_file, output_file)
CallProcess ==
    /\ pc = "idle"
    /\ \E f \in SingleFiles : cur' = f
    /\ mode' = "single"
    /\ pc' = "load"
    /\ UNCHANGED <<config, audio_data, sample_rate, everLoaded, batchVars, genVars,
                   outVars, spectrum, error, steps>>

\* a caller invoking calculate_spectrum() on the instance
CallCalculateSpectrum ==
    /\ pc = "idle"
    /\ mode' = "direct"
    /\ pc' = "calc"
    /\ UNCHANGED <<config, audio_data, sample_rate, everLoaded, batchVars, genVars,
                   outVars, cur, spectrum, error, steps>>

\* lines 266-311: process_batch up to the loop.  The folder is missing, or
\* holds a listing.
CallProcessBatch ==
    /\ pc = "idle"
    /\ mode' = "batch"
    /\ \E folder \in {None} \cup {Some(l) : l \in Listings} :
          IF folder.none
          THEN /\ error' = "ValueError: input folder missing"
               /\ pc' = "done"
               /\ UNCHANGED <<dir, audio_files>>
          ELSE /\ dir' = folder.val
               /\ audio_files' = Enumerate(folder.val, 1)
               /\ pc' = IF Enumerate(folder.val, 1) = <<>> THEN "done" ELSE "batch_next"
               /\ error' = ""
    /\ idx' = 0
    /\ success_count' = 0
    /\ failed_files' = <<>>
    /\ UNCHANGED <<config, audio_data, sample_rate, everLoaded, genVars, outVars,
                   cur, spectrum, steps>>

\* lines 313-322: the loop takes the next path and calls process on it
BatchNext ==
    /\ pc = "batch_next"
    /\ idx < Len(audio_files)
    /\ cur' = [exists |-> TRUE, name |-> audio_files[idx + 1].name,
               ext |-> audio_files[idx + 1].ext, content |-> None]
    /\ steps' = <<>>
    /\ error' = ""
    /\ pc' = "load"
    /\ UNCHANGED <<config, audio_data, sample_rate, everLoaded, mode, batchVars,
                   genVars, outVars, spectrum>>

\* the locals of process and of the methods it called end with the call
ProcessLocalsGone ==
    /\ cur' = NoFile
    /\ spectrum' = <<>>
    /\ svg' = NoSvg
    /\ x_offset' = 0
    /\ bar_i' = 0
    /\ steps' = <<>>

\* lines 326-328 with the exception ending the loop
BatchExceptAborts ==
    /\ pc = "except"
    /\ failed_files' = Append(failed_files, <<cur.name, error>>)
    /\ error' = ""
    /\ pc' = "done"
    /\ ProcessLocalsGone
    /\ UNCHANGED <<config, audio_data, sample_rate, everLoaded, mode, dir, audio_files,
                   idx, success_count, outVars>>

\* lines 326-328: except Exception: record (name, message), go on
BatchExcept ==
    /\ pc = "except"
    /\ failed_files' = Append(failed_files, <<cur.name, error>>)
    /\ error' = ""
    /\ idx' = idx + 1
    /\ pc' = "batch_next"
    /\ ProcessLocalsGone
    /\ UNCHANGED <<config, audio_data, sample_rate, everLoaded, mode, dir, audio_files,
                   success_count, outVars>>

\* line 324: process returned
BatchSuccess ==
    /\ pc = "batch_ok"
    /\ success_count' = success_count + 1
    /\ idx' = idx + 1
    /\ pc' = "batch_next"
    /\ ProcessLocalsGone
    /\ UNCHANGED <<config, audio_data, sample_rate, everLoaded, mode, dir, audio_files,
                   failed_files, outVars, error>>

\* lines 330-338: the loop is over, the tally is printed
BatchReport ==
    /\ pc = "batch_next"
    /\ idx = Len(audio_files)
    /\ pc' = "done"
    /\ UNCHANGED <<config, audio_data, sample_rate, everLoaded, mode, batchVars,
                   genVars, outVars, cur, spectrum, error, steps>>

\* outcome of load_audio on file f: the error it raises, "" if it loads
LoadError(f) ==
    IF ~f.exists THEN "FileNotFoundError"
    ELSE IF ~InSupported(Lower(f.ext)) THEN "ValueError: unsupported format"
    ELSE IF f.content.none THEN "DecodeError"
    ELSE ""

\* what librosa.load can find in file f; it is not reached for a missing file
\* or an unsupported extension
ContentsOf(f) ==
    IF f.exists /\ InSupported(Lower(f.ext)) THEN FileContents ELSE {None}

\* line 250 with a failed load swallowed: process goes on to the analysis
LoadAudioSwallowed ==
    /\ pc = "load"
    /\ steps' = Append(steps, "load_audio")
    /\ \E c \in ContentsOf(cur) :
          /\ cur' = [cur EXCEPT !.content = c]
          /\ IF LoadError(cur') # ""
             THEN UNCHANGED <<audio_data, sample_rate, everLoaded>>
             ELSE /\ audio_data' = Some(c.val.samples)
                  /\ sample_rate' = Some(c.val.sr)
                  /\ everLoaded' = TRUE
    /\ pc' = "calc"
    /\ UNCHANGED <<config, mode, batchVars, genVars, outVars, spectrum, error>>

\* line 250 with the buffer kept once loaded: a later file is not decoded
LoadAudioCached ==
    /\ pc = "load"
    /\ steps' = Append(steps, "load_audio")
    /\ \E c \in ContentsOf(cur) :
          /\ cur' = [cur EXCEPT !.content = c]
          /\ IF LoadError(cur') # ""
             THEN /\ error' = LoadError(cur')
                  /\ pc' = RaisePc
                  /\ UNCHANGED <<audio_data, sample_rate, everLoaded>>
             ELSE /\ audio_data' = (IF audio_data.none THEN Some(c.val.samples)
                                    ELSE audio_data)
                  /\ sample_rate' = (IF audio_data.none THEN Some(c.val.sr)
                                     ELSE sample_rate)
                  /\ everLoaded' = TRUE
                  /\ pc' = "calc"
                  /\ UNCHANGED error
    /\ UNCHANGED <<config, mode, batchVars, genVars, outVars, spectrum>>

\* line 250 and lines 45-76: process calls load_audio on the path; the file
\* holds some content; load_audio raises or sets audio_data and sample_rate
\* together (line 71)
LoadAudio ==
    /\ pc = "load"
    /\ steps' = Append(steps, "load_audio")
    /\ \E c \in ContentsOf(cur) :
          /\ cur' = [cur EXCEPT !.content = c]
          /\ IF LoadError(cur') # ""
             THEN /\ error' = LoadError(cur')
                  /\ pc' = RaisePc
                  /\ UNCHANGED <<audio_data, sample_rate, everLoaded>>
             ELSE /\ audio_data' = Some(c.val.samples)
                  /\ sample_rate' = Some(c.val.sr)
                  /\ everLoaded' = TRUE
                  /\ pc' = "calc"
                  /\ UNCHANGED error
    /\ UNCHANGED <<config, mode, batchVars, genVars, outVars, spectrum>>

\* line 261 (or a direct call) and lines 78-141
CalculateSpectrumStep ==
    /\ pc = "calc"
    /\ steps' = Append(steps, "calculate_spectrum")
    /\ \E emptyRaises \in BOOLEAN :
          LET r == CalculateSpectrum(config, audio_data, sample_rate, emptyRaises)
          IN  IF r.err # ""
              THEN /\ error' = r.err
                   /\ pc' = RaisePc
                   /\ UNCHANGED spectrum
              ELSE /\ spectrum' = r.energy
                   /\ pc' = (IF mode = "direct" THEN "done" ELSE "gen_begin")
                   /\ UNCHANGED error
    /\ UNCHANGED <<config, audio_data, sample_rate, everLoaded, mode, batchVars,
                   genVars, outVars, cur>>

\* line 264 and lines 154-195: sizes, header, background
GenerateSvgBegin ==
    /\ pc = "gen_begin"
    /\ steps' = Append(steps, "generate_svg")
    /\ svg' = SvgHeader(config, Len(spectrum))
    /\ x_offset' = 0
    /\ bar_i' = 0
    /\ pc' = "gen_bar"
    /\ UNCHANGED <<config, audio_data, sample_rate, everLoaded, mode, batchVars,
                   outVars, cur, spectrum, error>>

\* lines 197-225 with the spacing left out of the accumulator
GenerateSvgBarNoSpacing ==
    /\ pc = "gen_bar"
    /\ bar_i < Len(spectrum)
    /\ svg' = [svg EXCEPT !.rects =
                  Append(@, BarRect(config, bar_i, spectrum[bar_i + 1], x_offset))]
    /\ x_offset' = x_offset + config.bar_width
    /\ bar_i' = bar_i + 1
    /\ UNCHANGED <<config, audio_data, sample_rate, everLoaded, pc, mode, batchVars,
                   outVars, cur, spectrum, error, steps>>

\* lines 197-225: one iteration of the bar loop
GenerateSvgBar ==
    /\ pc = "gen_bar"
    /\ bar_i < Len(spectrum)
    /\ svg' = [svg EXCEPT !.rects =
                  Append(@, BarRect(config, bar_i, spectrum[bar_i + 1], x_offset))]
    /\ x_offset' = x_offset + config.bar_width + config.bar_spacing
    /\ bar_i' = bar_i + 1
    /\ UNCHANGED <<config, audio_data, sample_rate, everLoaded, pc, mode, batchVars,
                   outVars, cur, spectrum, error, steps>>

\* lines 227-239: close the markup and write the file; open() may fail
GenerateSvgEnd ==
    /\ pc = "gen_bar"
    /\ bar_i = Len(spectrum)
    /\ \E writable \in BOOLEAN :
          IF writable
          THEN /\ written' = written \cup {cur.name}
               /\ svg_out' = Some([name |-> cur.name, markup |-> svg])
               /\ pc' = (IF mode = "batch" THEN "batch_ok" ELSE "done")
               /\ UNCHANGED error
          ELSE /\ error' = "OSError"
               /\ pc' = RaisePc
               /\ UNCHANGED <<written, svg_out>>
    /\ UNCHANGED <<config, audio_data, sample_rate, everLoaded, mode, batchVars,
                   genVars, cur, spectrum, steps>>

\* the call is over: its locals are gone, the instance keeps its fields
Return ==
    /\ pc = "done"
    /\ pc' = "idle"
    /\ mode' = "none"
    /\ dir' = <<>>
    /\ audio_files' = <<>>
    /\ idx' = 0
    /\ success_count' = 0
    /\ failed_files' = <<>>
    /\ cur' = NoFile
    /\ spectrum' = <<>>
    /\ error' = ""
    /\ svg' = NoSvg
    /\ x_offset' = 0
    /\ bar_i' = 0
    /\ written' = {}
    /\ svg_out' = None
    /\ steps' = <<>>
    /\ UNCHANGED <<config, audio_data, sample_rate, everLoaded>>

-----------------------------------------------------------------------------
(* Specifications *)

Next ==
    \/ CallProcess
    \/ CallCalculateSpectrum
    \/ CallProcessBatch
    \/ BatchNext
    \/ BatchExcept
    \/ BatchSuccess
    \/ BatchReport
    \/ LoadAudio
    \/ CalculateSpectrumStep
    \/ GenerateSvgBegin
    \/ GenerateSvgBar
    \/ GenerateSvgEnd
    \/ Return

\* the generator object under any sequence of calls
Spec == Init /\ [][Next]_vars

\* calculate_spectrum alone, over the analysis configurations
NextSpectrum == CalculateSpectrumStep

SpecSpectrum == InitSpectrum /\ [][NextSpectrum]_vars

\* generate_svg alone, over the rendering configurations
NextSvg == GenerateSvgBegin \/ GenerateSvgBar \/ GenerateSvgEnd

SpecSvg == InitSvg /\ [][NextSvg]_vars

-----------------------------------------------------------------------------
(* Properties *)

InProcess == mode \in {"single", "batch"}

\* the process call on cur has returned normally
ProcessReturned == pc = "batch_ok" \/ (pc = "done" /\ mode = "single" /\ error = "")

\* the process call on cur has raised
ProcessRaised == pc = "except" \/ (pc = "done" /\ mode = "single" /\ error # "")

Names(files) == {files[k].name : k \in 1..Len(files)}

\* the markup generate_svg is specified to produce for a spectrum
ExpectedMarkup(cfg, sp) ==
    [SvgHeader(cfg, Len(sp)) EXCEPT !.rects =
        [k \in 1..Len(sp) |->
            BarRect(cfg, k - 1, sp[k], (k - 1) * (cfg.bar_width + cfg.bar_spacing))]]

\* the spectra calculate_spectrum can return for the content of file f
SpectraOf(f) ==
    {CalculateSpectrum(config, Some(f.content.val.samples), Some(f.content.val.sr), er).energy :
        er \in {b \in BOOLEAN :
                  CalculateSpectrum(config, Some(f.content.val.samples),
                                    Some(f.content.val.sr), b).err = ""}}

\* C1: process_batch attempts every enumerated file whatever raises: while the
\* loop runs success_count + len(failed_files) is the number of files handled,
\* each failure entry names a handled file that wrote no SVG, each success
\* wrote one, and at the report all K files have been handled.
C1_BatchIsolation ==
    (mode = "batch" /\ pc # "idle" /\ error # "ValueError: input folder missing") =>
        /\ success_count + Len(failed_files) = idx
        /\ idx <= Len(audio_files)
        /\ \A k \in 1..Len(failed_files) :
              /\ failed_files[k][1] \in Names(SubSeq(audio_files, 1, idx))
              /\ failed_files[k][1] \notin written
              /\ failed_files[k][2] # ""
        /\ Cardinality(written \ (IF pc = "batch_ok" THEN {cur.name} ELSE {})) = success_count
        /\ written \subseteq Names(audio_files)
        /\ (pc = "done" => idx = Len(audio_files))

\* witness of C1: two files enumerated, the first failed, the second succeeded
C1_Witness ==
    /\ mode = "batch" /\ pc = "done"
    /\ Len(audio_files) = 2
    /\ success_count = 1
    /\ Len(failed_files) = 1
    /\ failed_files[1][1] = audio_files[1].name
    /\ written = {audio_files[2].name}

\* C2: inside process(f) the analysis runs on f's own samples and rate, the
\* spectrum handed to generate_svg is one computed from them, and the file
\* written holds the markup of that spectrum.
C2_NoCrossFileState ==
    /\ (InProcess /\ pc = "calc") =>
          /\ ~cur.content.none
          /\ audio_data = Some(cur.content.val.samples)
          /\ sample_rate = Some(cur.content.val.sr)
    /\ (InProcess /\ (pc \in {"gen_begin", "gen_bar"} \/ ProcessReturned)) =>
          /\ ~cur.content.none
          /\ spectrum \in SpectraOf(cur)
    /\ (InProcess /\ ProcessReturned) =>
          svg_out = Some([name |-> cur.name, markup |-> ExpectedMarkup(config, spectrum)])

\* witness of C2: the first file of a batch failed to decode (the instance keeps
\* what it held before) and the second file was rendered from its own samples
C2_Witness ==
    /\ mode = "batch" /\ pc = "batch_ok" /\ idx = 1
    /\ failed_files = <<(<<audio_files[1].name, "DecodeError">>)>>
    /\ Len(spectrum) > 0

\* the bar count of the claim: num_bars if positive, else derived from the
\* duration
ClaimedBarCount(cfg, a, sr) ==
    IF cfg.num_bars > 0 THEN cfg.num_bars
    ELSE IntTrunc(RMul(Rat(Len(a), sr), cfg.bars_per_second))

\* C3: when the pipeline has run on a file, the number of rectangles written
\* equals the length of the spectrum, which equals the resolved bar count.
C3_BarCount ==
    /\ (InProcess /\ (pc \in {"gen_begin", "gen_bar"} \/ ProcessReturned)) =>
          Len(spectrum) = ClaimedBarCount(config, audio_data.val, sample_rate.val)
    /\ (InProcess /\ ProcessReturned) =>
          Len(svg_out.val.markup.rects) = Len(spectrum)

\* witness of C3: a file rendered whose bar count differs from its frame count
C3_Witness ==
    /\ InProcess /\ ProcessReturned
    /\ Len(svg_out.val.markup.rects) = 2
    /\ NumFrames(audio_data.val, HopLength(config, sample_rate.val)) = 1

\* the configurations the claim calls invalid
ClaimedInvalidConfig(cfg) ==
    \/ cfg.freq_min >= cfg.freq_max
    \/ RLe(cfg.time_window, R(0))
    \/ (cfg.num_bars = 0 /\ RLe(cfg.bars_per_second, R(0)))

\* C4: with freq_min >= freq_max, time_window <= 0 or (num_bars == 0 and)
\* bars_per_second <= 0 the analysis raises: no spectrum reaches generate_svg
\* and no SVG is written.
C4_InvalidConfigRaises ==
    ClaimedInvalidConfig(config) =>
        /\ pc \notin {"gen_begin", "gen_bar", "batch_ok"}
        /\ written = {}

\* C5 as claimed: the derived count is round(duration * bars_per_second)
C5_RoundedBarCount ==
    (pc = "done" /\ error = "" /\ config.num_bars = 0) =>
        Len(spectrum) = RoundNearest(RMul(Rat(Len(audio_data.val), sample_rate.val),
                                          config.bars_per_second))

\* floor of p / q for q > 0, toward zero
TruncDiv(p, q) == IF p >= 0 THEN p \div q ELSE -((-p) \div q)

\* the count after lines 99-100, written out: num_bars itself unless it is 0,
\* then len * bars_per_second / sample_rate cut toward zero
TruncatedBarCount ==
    IF config.num_bars # 0 THEN config.num_bars
    ELSE TruncDiv(Len(audio_data.val) * config.bars_per_second.n,
                  sample_rate.val * config.bars_per_second.d)

\* C5 (amended): the bar count is num_bars when that is not 0 and otherwise
\* int(duration * bars_per_second), cut toward zero; a returned spectrum has
\* that many entries, and a count below 1 makes calculate_spectrum raise and
\* return nothing.
C5_TruncatedBarCount ==
    (pc = "done" /\ ~audio_data.none) =>
        /\ (error = "" => Len(spectrum) = TruncatedBarCount /\ TruncatedBarCount >= 1)
        /\ (TruncatedBarCount < 1 => error # "" /\ spectrum = <<>>)

\* witness of C5: a derived count whose product is not whole (3 samples at
\* 2 Hz, one bar per second: 1.5 gives 1 bar)
C5_Witness ==
    /\ pc = "done" /\ error = ""
    /\ config.num_bars = 0
    /\ config.bars_per_second = R(1)
    /\ Len(audio_data.val) = 3 /\ sample_rate.val = 2
    /\ Len(spectrum) = 1

\* C6 as claimed: every width written (for a spectrum with bars) is the
\* computed width
C6_WidthAlwaysComputed ==
    (pc = "gen_bar" /\ Len(spectrum) > 0) =>
        /\ svg.width = ComputedWidth(config, Len(spectrum))
        /\ svg.viewBox[3] = ComputedWidth(config, Len(spectrum))
        /\ (~svg.background.none => svg.background.val[1] = ComputedWidth(config, Len(spectrum)))

\* the larger of the configured and the computed width
WiderWidth ==
    LET computed == Len(spectrum) * (config.bar_width + config.bar_spacing) - config.bar_spacing
    IN  IF config.width # 0 /\ config.width >= computed THEN config.width ELSE computed

\* C6 (amended): the header, the viewBox and the background rectangle carry
\* the computed width when svg.width is 0 or smaller than it, and the
\* configured width when that is non-zero and at least the computed width.
C6_WidthResolution ==
    /\ pc = "gen_bar" =>
          /\ svg.width = WiderWidth
          /\ svg.viewBox[3] = WiderWidth
          /\ (~svg.background.none => svg.background.val[1] = WiderWidth)
          /\ (svg.background.none <=> config.background_color = "")
    /\ ~svg_out.none =>
          /\ svg_out.val.markup.width = WiderWidth
          /\ svg_out.val.markup.viewBox[3] = WiderWidth

\* witness of C6: a file written with a configured width above the computed one
C6_Witness ==
    /\ ~svg_out.none
    /\ Len(spectrum) = 2
    /\ config.width > ComputedWidth(config, 2)
    /\ svg_out.val.markup.width = config.width
    /\ ~svg_out.val.markup.background.none

\* C7: the files enumerated are exactly those of the folder whose extension,
\* lower-cased, is a supported one.
C7_CaseInsensitiveEnumeration ==
    (mode = "batch" /\ pc # "idle" /\ error # "ValueError: input folder missing") =>
        Names(audio_files) = {dir[k].name : k \in {j \in 1..Len(dir) : InSupported(Lower(dir[j].ext))}}

\* C8: bar_<i> is the (i+1)-th rectangle and sits at x = i * (bar_width +
\* bar_spacing); the accumulator x_offset has that value at every iteration.
C8_GeometryOrdering ==
    /\ pc = "gen_bar" =>
          /\ Len(svg.rects) = bar_i
          /\ x_offset = bar_i * (config.bar_width + config.bar_spacing)
          /\ \A k \in 1..Len(svg.rects) :
                /\ svg.rects[k].id = k - 1
                /\ svg.rects[k].x = (k - 1) * (config.bar_width + config.bar_spacing)
    /\ ~svg_out.none =>
          /\ Len(svg_out.val.markup.rects) = Len(spectrum)
          /\ \A k \in 1..Len(spectrum) :
                /\ svg_out.val.markup.rects[k].id = k - 1
                /\ svg_out.val.markup.rects[k].x = (k - 1) * (config.bar_width + config.bar_spacing)

\* witness of C8: three bars written with a non-zero spacing
C8_Witness ==
    /\ ~svg_out.none
    /\ config.bar_spacing > 0
    /\ Len(svg_out.val.markup.rects) = 3
    /\ svg_out.val.markup.rects[3].x = 2 * (config.bar_width + config.bar_spacing)

\* the energy before normalisation: the frames resampled to the bar count
ResampledEnergy ==
    Resample(RawEnergy(config, audio_data.val, sample_rate.val),
             ResolveBarCount(config, audio_data.val, sample_rate.val))

\* C9: a maximum of 0 gives all zeros of the resolved length, without a
\* division; a positive maximum maps to exactly 1 and every entry ends in
\* [0, 1].
C9_Normalization ==
    (pc = "done" /\ error = "" /\ ~audio_data.none) =>
        /\ Len(spectrum) = Len(ResampledEnergy)
        /\ NpMax(ResampledEnergy) = R(0) =>
              \A k \in 1..Len(spectrum) : spectrum[k] = R(0)
        /\ RGt(NpMax(ResampledEnergy), R(0)) =>
              /\ \A k \in 1..Len(spectrum) :
                    /\ RLe(R(0), spectrum[k]) /\ RLe(spectrum[k], R(1))
                    /\ (ResampledEnergy[k] = NpMax(ResampledEnergy) <=> spectrum[k] = R(1))
              /\ \E k \in 1..Len(spectrum) : spectrum[k] = R(1)

\* witness of C9: a silent, non-empty buffer analysed into two zero bars
C9_Witness ==
    /\ pc = "done" /\ error = ""
    /\ ~audio_data.none
    /\ audio_data.val = <<0, 0>>
    /\ spectrum = <<R(0), R(0)>>

IsPrefix(s, t) == Len(s) <= Len(t) /\ \A k \in 1..Len(s) : s[k] = t[k]

\* C10: calculate_spectrum on an instance that never loaded raises and returns
\* nothing; process runs load_audio, calculate_spectrum, generate_svg in that
\* order, a step runs only if the steps before it succeeded, and a call that
\* raised wrote no file.
C10_CallOrder ==
    /\ (pc = "done" /\ mode = "direct" /\ ~everLoaded) =>
          error # "" /\ spectrum = <<>>
    /\ InProcess =>
          IsPrefix(steps, <<"load_audio", "calculate_spectrum", "generate_svg">>)
    /\ (InProcess /\ pc = "calc") =>
          steps = <<"load_audio">> /\ LoadError(cur) = ""
    /\ (InProcess /\ pc = "gen_begin") =>
          steps = <<"load_audio", "calculate_spectrum">> /\ LoadError(cur) = ""
    /\ (InProcess /\ (pc = "gen_bar" \/ ProcessReturned)) =>
          Len(steps) = 3 /\ LoadError(cur) = ""
    /\ (InProcess /\ ProcessRaised) =>
          /\ cur.name \notin written
          /\ (LoadError(cur) # "" => steps = <<"load_audio">> /\ error = LoadError(cur))

\* witness of C10: a direct calculate_spectrum call on a never-loaded instance
\* has raised
C10_Witness ==
    /\ pc = "done" /\ mode = "direct"
    /\ ~everLoaded
    /\ error = "ValueError: load the audio first"

=============================================================================
